---- MODULE Spec2Model ----
(***************************************************************************)
(* whale-c front end: the tokenizer (src/src/lex.rs) and the recursive     *)
(* descent parser (src/src/parse.rs), as one state machine that runs       *)
(* parse_translation_unit on a source text.                                *)
(*                                                                         *)
(* A source text is a sequence of bytes, each written as a one-character   *)
(* string.  The tokenizer advances one loop iteration per step; the parser *)
(* is a stack of activation frames, and a step runs the code of the top    *)
(* frame from the point where it resumes to its next call or its return.   *)
(***************************************************************************)
EXTENDS Integers, Sequences, FiniteSets, TLC

VARIABLES
    src,      \* Lexer.s: the bytes of the source text
    lx,       \* Lexer {i, line, col}
    lpc,      \* the tokenizer loop that is running: skip, line, block, num, id
    acc,      \* next_tok's local: v (number) or start (identifier)
    out,      \* lex_all's out: the tokens pushed so far
    phase,    \* lex, parse, ok (a Program was returned), err (an error was)
    err,      \* the error returned, or NoErr
    p,        \* Parser {toks, i}
    stack,    \* the parser's activation frames, the running one last
    ret,      \* what the call that ended last returned: an expression, or a
              \* sequence of statements or of one declaration
    program   \* the Program returned

vars == <<src, lx, lpc, acc, out, phase, err, p, stack, ret, program>>

(***************************************************************************)
(* Bytes                                                                   *)
(***************************************************************************)
None == "None"

Digits == {"0", "1", "2", "3", "4", "5", "6", "7", "8", "9"}

Letters ==
    {"a", "b", "c", "d", "e", "f", "g", "h", "i", "j", "k", "l", "m",
     "n", "o", "p", "q", "r", "s", "t", "u", "v", "w", "x", "y", "z",
     "A", "B", "C", "D", "E", "F", "G", "H", "I", "J", "K", "L", "M",
     "N", "O", "P", "Q", "R", "S", "T", "U", "V", "W", "X", "Y", "Z"}

Whitespace == {" ", "\t", "\r", "\n"}

DigitVal(d) ==
    CASE d = "0" -> 0 [] d = "1" -> 1 [] d = "2" -> 2 [] d = "3" -> 3
      [] d = "4" -> 4 [] d = "5" -> 5 [] d = "6" -> 6 [] d = "7" -> 7
      [] d = "8" -> 8 [] d = "9" -> 9

IsIdentStart(c) == c \in Letters \/ c = "_"

IsIdentPart(c) == c \in Letters \/ c \in Digits \/ c = "_"

(***************************************************************************)
(* Tokens: <<kind>> or <<kind, payload>>                                   *)
(***************************************************************************)
T(k) == <<k>>

Ident(text) == <<"Ident", text>>

IntLit(v) == <<"IntLit", v>>

Eof == T("Eof")

Kind(t) == t[1]

Keyword(text) ==
    CASE text = <<"i", "n", "t">> -> T("Int")
      [] text = <<"u", "n", "s", "i", "g", "n", "e", "d">> -> T("Unsigned")
      [] text = <<"v", "o", "i", "d">> -> T("Void")
      [] text = <<"c", "o", "n", "s", "t">> -> T("Const")
      [] text = <<"r", "e", "t", "u", "r", "n">> -> T("Return")
      [] text = <<"i", "f">> -> T("If")
      [] text = <<"e", "l", "s", "e">> -> T("Else")
      [] text = <<"w", "h", "i", "l", "e">> -> T("While")
      [] text = <<"b", "r", "e", "a", "k">> -> T("Break")
      [] text = <<"c", "o", "n", "t", "i", "n", "u", "e">> -> T("Continue")
      [] text = <<"t", "r", "u", "e">> -> T("True")
      [] text = <<"f", "a", "l", "s", "e">> -> T("False")
      [] OTHER -> Ident(text)

NoTok == T("NoTok")

OneCharOp(c) ==
    CASE c = "(" -> T("LParen")
      [] c = ")" -> T("RParen")
      [] c = "{" -> T("LBrace")
      [] c = "}" -> T("RBrace")
      [] c = ";" -> T("Semi")
      [] c = "," -> T("Comma")
      [] c = "=" -> T("Assign")
      [] c = "<" -> T("Lt")
      [] c = ">" -> T("Gt")
      [] c = "+" -> T("Plus")
      [] c = "-" -> T("Minus")
      [] c = "*" -> T("Star")
      [] OTHER -> NoTok

(***************************************************************************)
(* Lexer                                                                   *)
(***************************************************************************)
NewLexer == [i |-> 0, line |-> 1, col |-> 1]

LexPeek(L) == IF L.i < Len(src) THEN src[L.i + 1] ELSE None

\* bump without the reset of col on a newline
LexBump_NoColReset(L) ==
    IF L.i >= Len(src) THEN L
    ELSE IF src[L.i + 1] = "\n"
         THEN [i |-> L.i + 1, line |-> L.line + 1, col |-> L.col + 1]
         ELSE [i |-> L.i + 1, line |-> L.line, col |-> L.col + 1]

LexBump(L) ==
    IF L.i >= Len(src) THEN L
    ELSE IF src[L.i + 1] = "\n"
         THEN [i |-> L.i + 1, line |-> L.line + 1, col |-> 1]
         ELSE [i |-> L.i + 1, line |-> L.line, col |-> L.col + 1]

StartsWith(L, pat) ==
    /\ L.i + Len(pat) <= Len(src)
    /\ SubSeq(src, L.i + 1, L.i + Len(pat)) = pat

\* the two-char tests of next_tok without those for <= and >=
TwoCharTok_NoLeGe(L) ==
    IF StartsWith(L, <<"=", "=">>) THEN T("EqEq")
    ELSE IF StartsWith(L, <<"!", "=">>) THEN T("NotEq")
    ELSE NoTok

\* The two-char tests of next_tok, in its order.
TwoCharTok(L) ==
    IF StartsWith(L, <<"=", "=">>) THEN T("EqEq")
    ELSE IF StartsWith(L, <<"!", "=">>) THEN T("NotEq")
    ELSE IF StartsWith(L, <<"<", "=">>) THEN T("Le")
    ELSE IF StartsWith(L, <<">", "=">>) THEN T("Ge")
    ELSE NoTok

NoErr == [kind |-> "none"]

LexError(msg, L) == [kind |-> "lex", msg |-> msg, line |-> L.line, col |-> L.col]

ParseError(msg) == [kind |-> "parse", msg |-> msg]

\* Err(..) leaving lex_all and parse_translation_unit through `?`.
Fail(e) ==
    /\ phase' = "err"
    /\ err' = e
    /\ stack' = <<>>

\* parse_translation_unit after lex_all returned Ok(out): the Parser and the
\* two empty vectors, at the head of its while loop.
NewParser(toks) == [toks |-> toks, i |-> 0]

TUFrame == [fn |-> "parse_translation_unit", pc |-> "loop", at |-> 0, mark |-> 0,
            globals |-> <<>>, functions |-> <<>>]

\* lex_all leaving its loop on Eof before the push
LexAll_BreakFirst(t, L) ==
    /\ lx' = L
    /\ out' = IF t = Eof THEN out ELSE Append(out, t)
    /\ lpc' = "skip"
    /\ acc' = 0
    /\ IF t = Eof
       THEN /\ phase' = "parse"
            /\ p' = NewParser(out)
            /\ stack' = <<TUFrame>>
       ELSE UNCHANGED <<phase, p, stack>>
    /\ UNCHANGED <<src, err, ret, program>>

\* lex_all's loop body after next_tok returned t: push, and stop on Eof.
LexAll(t, L) ==
    /\ lx' = L
    /\ out' = Append(out, t)
    /\ lpc' = "skip"
    /\ acc' = 0
    /\ IF t = Eof
       THEN /\ phase' = "parse"
            /\ p' = NewParser(Append(out, t))
            /\ stack' = <<TUFrame>>
       ELSE UNCHANGED <<phase, p, stack>>
    /\ UNCHANGED <<src, err, ret, program>>

LexFail(msg, L) ==
    /\ Fail(LexError(msg, L))
    /\ UNCHANGED <<src, lx, lpc, acc, out, p, ret, program>>

LexStay(L, pc, a) ==
    /\ lx' = L
    /\ lpc' = pc
    /\ acc' = a
    /\ UNCHANGED <<src, out, phase, err, p, stack, ret, program>>

\* One iteration of the digit loop of next_tok, from accumulator v.
NumIter(L, v) ==
    LET d == LexPeek(L)
        L1 == LexBump(L)
        v1 == v * 10 + DigitVal(d)
    IN  IF LexPeek(L1) \in Digits
        THEN LexStay(L1, "num", v1)
        ELSE LexAll(IntLit(v1), L1)

\* One iteration of the identifier loop of next_tok; the text began at start.
IdentIter(L, start) ==
    LET L1 == LexBump(L)
    IN  IF IsIdentPart(LexPeek(L1))
        THEN LexStay(L1, "id", start)
        ELSE LexAll(Keyword(SubSeq(src, start + 1, L1.i)), L1)

\* next_tok after skip_ws_and_comments returned Ok.
NextTok(L) ==
    LET c == LexPeek(L)
    IN  IF c = None THEN LexAll(Eof, L)
        ELSE IF TwoCharTok(L) # NoTok THEN LexAll(TwoCharTok(L), LexBump(LexBump(L)))
        ELSE IF OneCharOp(c) # NoTok THEN LexAll(OneCharOp(c), LexBump(L))
        ELSE IF c \in Digits THEN NumIter(L, 0)
        ELSE IF IsIdentStart(c) THEN IdentIter(L, L.i)
        ELSE LexFail(<<"unexpected char", c>>, L)

\* The head of the loop of skip_ws_and_comments: a whitespace byte, the
\* start of a comment, or the break that lets next_tok go on.
LexSkip ==
    /\ phase = "lex"
    /\ lpc = "skip"
    /\ IF LexPeek(lx) \in Whitespace THEN LexStay(LexBump(lx), "skip", 0)
       ELSE IF StartsWith(lx, <<"/", "/">>) THEN LexStay(LexBump(lx), "line", 0)
       ELSE IF StartsWith(lx, <<"/", "*">>) THEN LexStay(LexBump(LexBump(lx)), "block", 0)
       ELSE NextTok(lx)

\* One iteration of the line comment loop: bump, and leave the loop on a
\* newline or when the next bump would find the end of the input.
LexLine ==
    /\ phase = "lex"
    /\ lpc = "line"
    /\ LET c == LexPeek(lx)
           L1 == LexBump(lx)
       IN  IF c = "\n" \/ L1.i >= Len(src)
           THEN LexStay(L1, "skip", 0)
           ELSE LexStay(L1, "line", 0)

\* The block comment loop: one byte, or the closing */, or the error.
LexBlock ==
    /\ phase = "lex"
    /\ lpc = "block"
    /\ IF lx.i < Len(src) /\ ~StartsWith(lx, <<"*", "/">>)
       THEN LexStay(LexBump(lx), "block", 0)
       ELSE IF ~StartsWith(lx, <<"*", "/">>)
       THEN LexFail(<<"unterminated block comment">>, lx)
       ELSE LexStay(LexBump(LexBump(lx)), "skip", 0)

LexNum ==
    /\ phase = "lex"
    /\ lpc = "num"
    /\ NumIter(lx, acc)

LexIdent ==
    /\ phase = "lex"
    /\ lpc = "id"
    /\ IdentIter(lx, acc)

(***************************************************************************)
(* AST (ir::lower_ast::frontend): tagged tuples and records.  An Option is *)
(* the empty tuple (None) or a one-element tuple (Some).                   *)
(***************************************************************************)
TypeInt(signed) == <<"Int", 32, signed>>

TypeVoid == <<"Void">>

LitInt(v) == <<"Lit", <<"Int", 32, TRUE, v>>>>

LitBool(b) == <<"Lit", <<"Bool", b>>>>

Var(name) == <<"Var", name>>

Binary(left, op, right) == <<"Binary", left, op, right>>

Cmp(left, op, right) == <<"Cmp", left, op, right>>

lit_i32(v) == LitInt(v)

\* ensure_bool that keeps comparisons only
ensure_bool_CmpOnly(e) ==
    IF e[1] = "Cmp" THEN e
    ELSE Cmp(e, "Ne", lit_i32(0))

ensure_bool(e) ==
    IF e[1] = "Cmp" THEN e
    ELSE IF e[1] = "Lit" /\ e[2][1] = "Bool" THEN e
    ELSE Cmp(e, "Ne", lit_i32(0))

(***************************************************************************)
(* Parser: the cursor operations.  A result is Ok(val) or Err(msg) with    *)
(* the cursor after it; an operation given a failed result passes it on,   *)
(* which is the `?` of the code.                                           *)
(***************************************************************************)
ROk(i, val) == [ok |-> TRUE, i |-> i, val |-> val, msg |-> <<>>]

RErr(i, msg) == [ok |-> FALSE, i |-> i, val |-> <<>>, msg |-> msg]

\* toks.get(i).unwrap_or(&Tok::Eof)
TokAt(i) == IF i < Len(p.toks) THEN p.toks[i + 1] ELSE Eof

is_eof(i) == TokAt(i) = Eof

expect(r, want) ==
    IF ~r.ok THEN r
    ELSE IF TokAt(r.i) = want THEN ROk(r.i + 1, <<>>)
    ELSE RErr(r.i + 1, <<"expected", want, TokAt(r.i)>>)

expect_ident(r) ==
    IF ~r.ok THEN r
    ELSE IF Kind(TokAt(r.i)) = "Ident" THEN ROk(r.i + 1, TokAt(r.i)[2])
    ELSE RErr(r.i + 1, <<"expected identifier", TokAt(r.i)>>)

parse_type(r) ==
    IF ~r.ok THEN r
    ELSE LET signed == TokAt(r.i) # T("Unsigned")
             j == IF signed THEN r.i ELSE r.i + 1
         IN  IF TokAt(j) = T("Int") THEN ROk(j + 1, TypeInt(signed))
             ELSE IF TokAt(j) = T("Void") THEN ROk(j + 1, TypeVoid)
             ELSE RErr(j + 1, <<"expected type", TokAt(j)>>)

(***************************************************************************)
(* Activation frames.  at is the cursor when the function was called and   *)
(* mark the cursor when its loop last began an iteration; no step reads    *)
(* either.                                                                 *)
(***************************************************************************)
Top == stack[Len(stack)]

Rest == SubSeq(stack, 1, Len(stack) - 1)

GlobalConstFrame(i) ==
    [fn |-> "parse_global_const", pc |-> "start", at |-> i, ty |-> <<>>, name |-> <<>>]

FunctionFrame(i) ==
    [fn |-> "parse_function", pc |-> "start", at |-> i, mark |-> i,
     return_type |-> <<>>, name |-> <<>>, parameters |-> <<>>]

BlockFrame(i) ==
    [fn |-> "parse_block", pc |-> "start", at |-> i, mark |-> i, out |-> <<>>]

StmtFrame(i) ==
    [fn |-> "parse_stmt", pc |-> "start", at |-> i, ty |-> <<>>, name |-> <<>>,
     cond |-> <<>>, then_body |-> <<>>]

CmpFrame(i) ==
    [fn |-> "parse_cmp", pc |-> "left", at |-> i, left |-> <<>>, op |-> ""]

AddFrame(i) ==
    [fn |-> "parse_add", pc |-> "first", at |-> i, mark |-> i, e |-> <<>>, op |-> ""]

MulFrame(i) ==
    [fn |-> "parse_mul", pc |-> "first", at |-> i, mark |-> i, e |-> <<>>]

PrimaryFrame(i) == [fn |-> "parse_primary", pc |-> "start", at |-> i]

\* A call of parse_primary, parse_mul, parse_add, parse_expr at cursor i.
\* parse_mul, parse_add and parse_cmp begin by calling the next one down,
\* and parse_expr only calls parse_cmp: the frames are pushed together.
PrimaryCall(i) == <<PrimaryFrame(i)>>

MulCall(i) == <<MulFrame(i)>> \o PrimaryCall(i)

AddCall(i) == <<AddFrame(i)>> \o MulCall(i)

ExprCall(i) == <<CmpFrame(i)>> \o AddCall(i)

\* parse_stmt_or_block
StmtOrBlockCall(i) ==
    IF TokAt(i) = T("LBrace") THEN <<BlockFrame(i)>> ELSE <<StmtFrame(i)>>

\* The running frame becomes f and calls what `callees` holds (nothing:
\* it goes on to its next loop iteration), the cursor at i.
PCall(f, callees, i) ==
    /\ stack' = (Rest \o <<f>>) \o callees
    /\ p' = [p EXCEPT !.i = i]
    /\ ret' = <<>>
    /\ UNCHANGED <<phase, err, program>>

\* The running frame returns Ok(val), the cursor at i.
PReturn(val, i) ==
    /\ stack' = Rest
    /\ p' = [p EXCEPT !.i = i]
    /\ ret' = val
    /\ UNCHANGED <<phase, err, program>>

\* The running frame returns the Err of r, and so does every caller.
PFail(r) ==
    /\ Fail(ParseError(r.msg))
    /\ p' = [p EXCEPT !.i = r.i]
    /\ ret' = <<>>
    /\ UNCHANGED program

LexVars == <<src, lx, lpc, acc, out>>

Running(fn) ==
    /\ phase = "parse"
    /\ stack # <<>>
    /\ Top.fn = fn
    /\ UNCHANGED LexVars

(***************************************************************************)
(* Parser: expressions                                                     *)
(***************************************************************************)
NoOp == ""

CmpOp(t) ==
    CASE t = T("EqEq") -> "Eq"
      [] t = T("NotEq") -> "Ne"
      [] t = T("Lt") -> "Lt"
      [] t = T("Le") -> "Le"
      [] t = T("Gt") -> "Gt"
      [] t = T("Ge") -> "Ge"
      [] OTHER -> NoOp

AddOp(t) ==
    CASE t = T("Plus") -> "Add"
      [] t = T("Minus") -> "Sub"
      [] OTHER -> NoOp

ParsePrimary ==
    /\ Running("parse_primary")
    /\ LET f == Top
           t == TokAt(p.i)
       IN  IF f.pc = "start"
           THEN CASE Kind(t) = "IntLit" -> PReturn(LitInt(t[2]), p.i + 1)
                  [] Kind(t) = "Ident" -> PReturn(Var(t[2]), p.i + 1)
                  [] Kind(t) = "True" -> PReturn(LitBool(TRUE), p.i + 1)
                  [] Kind(t) = "False" -> PReturn(LitBool(FALSE), p.i + 1)
                  [] Kind(t) = "LParen" ->
                        PCall([f EXCEPT !.pc = "paren"], ExprCall(p.i + 1), p.i + 1)
                  [] OTHER -> PFail(RErr(p.i + 1, <<"expected primary", t>>))
           ELSE LET r == expect(ROk(p.i, <<>>), T("RParen"))
                IN  IF r.ok THEN PReturn(ret, r.i) ELSE PFail(r)

\* The head of parse_mul's while loop, e parsed so far.
MulLoop(f, e, i) ==
    IF TokAt(i) = T("Star")
    THEN PCall([f EXCEPT !.pc = "rhs", !.e = e, !.mark = i], PrimaryCall(i + 1), i + 1)
    ELSE PReturn(e, i)

ParseMul ==
    /\ Running("parse_mul")
    /\ IF Top.pc = "first"
       THEN MulLoop(Top, ret, p.i)
       ELSE MulLoop(Top, Binary(Top.e, "Mul", ret), p.i)

\* the operands the other way round
AddNode_Swapped(e, op, r) == Binary(r, op, e)

\* e = Binary {left: e, op, right: r} in parse_add's loop
AddNode(e, op, r) == Binary(e, op, r)

\* The head of parse_add's loop, e parsed so far.
AddLoop(f, e, i) ==
    IF AddOp(TokAt(i)) = NoOp
    THEN PReturn(e, i)
    ELSE PCall([f EXCEPT !.pc = "rhs", !.e = e, !.op = AddOp(TokAt(i)), !.mark = i],
               MulCall(i + 1), i + 1)

ParseAdd ==
    /\ Running("parse_add")
    /\ IF Top.pc = "first"
       THEN AddLoop(Top, ret, p.i)
       ELSE AddLoop(Top, AddNode(Top.e, Top.op, ret), p.i)

\* parse_cmp once its left operand is parsed.
CmpRest(f, left, i) ==
    IF CmpOp(TokAt(i)) # NoOp
    THEN PCall([f EXCEPT !.pc = "right", !.left = left, !.op = CmpOp(TokAt(i))],
               AddCall(i + 1), i + 1)
    ELSE PReturn(left, i)

\* a comparison loop: another operator after the right operand goes on
CmpDone_Chained(f, e, i) ==
    IF CmpOp(TokAt(i)) # NoOp THEN CmpRest(f, e, i) ELSE PReturn(e, i)

\* parse_cmp with both operands parsed: Ok(Cmp {..}), whatever follows.
CmpDone(f, e, i) == PReturn(e, i)

ParseCmp ==
    /\ Running("parse_cmp")
    /\ IF Top.pc = "left"
       THEN CmpRest(Top, ret, p.i)
       ELSE CmpDone(Top, Cmp(Top.left, Top.op, ret), p.i)

(***************************************************************************)
(* Parser: statements                                                      *)
(***************************************************************************)
StmtReturn(value) == [kind |-> "Return", value |-> value]

StmtConstDecl(name, ty, init) ==
    [kind |-> "ConstDecl", name |-> name, ty |-> ty, init |-> init]

StmtVarDecl(name, ty, init) ==
    [kind |-> "VarDecl", name |-> name, ty |-> ty, init |-> init]

StmtAssign(name, value) == [kind |-> "Assign", name |-> name, value |-> value]

StmtExpr(e) == [kind |-> "ExprStmt", expr |-> e]

StmtIf(cond, then_body, else_body) ==
    [kind |-> "If", cond |-> cond, then_body |-> then_body, else_body |-> else_body]

StmtWhile(cond, body) == [kind |-> "While", cond |-> cond, body |-> body]

\* expect(Semi), then return the one statement st.
EndStmt(st, i) ==
    LET r == expect(ROk(i, <<>>), T("Semi"))
    IN  IF r.ok THEN PReturn(<<st>>, r.i) ELSE PFail(r)

\* the Ident arm without the look at the second token
StmtIdent_NoPeek2(f, i) == PCall([f EXCEPT !.pc = "expr_stmt"], ExprCall(i), i)

\* The Ident arm of parse_stmt: an assignment when the second token is '='.
StmtIdent(f, i) ==
    IF Kind(TokAt(i)) = "Ident" /\ TokAt(i + 1) = T("Assign")
    THEN LET r1 == expect_ident(ROk(i, <<>>))
             r2 == expect(r1, T("Assign"))
         IN  IF r2.ok
             THEN PCall([f EXCEPT !.pc = "assign_value", !.name = r1.val],
                        ExprCall(r2.i), r2.i)
             ELSE PFail(r2)
    ELSE PCall([f EXCEPT !.pc = "expr_stmt"], ExprCall(i), i)

\* the Int | Unsigned arm with the initializer dropped from the VarDecl
StmtVarInit_Dropped(f, e, i) == EndStmt(StmtVarDecl(f.name, f.ty, <<>>), i)

\* The end of the Int | Unsigned arm when there is an initializer e.
StmtVarInit(f, e, i) == EndStmt(StmtVarDecl(f.name, f.ty, <<e>>), i)

\* The Int | Unsigned arm of parse_stmt.
StmtVarDeclArm(f, i) ==
    LET r1 == parse_type(ROk(i, <<>>))
        r2 == expect_ident(r1)
    IN  IF ~r2.ok THEN PFail(r2)
        ELSE IF TokAt(r2.i) = T("Assign")
        THEN PCall([f EXCEPT !.pc = "var_init", !.ty = r1.val, !.name = r2.val],
                   ExprCall(r2.i + 1), r2.i + 1)
        ELSE EndStmt(StmtVarDecl(r2.val, r1.val, <<>>), r2.i)

\* The Const arm of parse_stmt.
StmtConstArm(f, i) ==
    LET r1 == parse_type(ROk(i + 1, <<>>))
        r2 == expect_ident(r1)
        r3 == expect(r2, T("Assign"))
    IN  IF r3.ok
        THEN PCall([f EXCEPT !.pc = "const_init", !.ty = r1.val, !.name = r2.val],
                   ExprCall(r3.i), r3.i)
        ELSE PFail(r3)

\* The If and While arms of parse_stmt, to the call of parse_expr.
StmtCondArm(f, i, pc) ==
    LET r == expect(ROk(i + 1, <<>>), T("LParen"))
    IN  IF r.ok THEN PCall([f EXCEPT !.pc = pc], ExprCall(r.i), r.i) ELSE PFail(r)

\* a fallback arm that takes the end of the input for an empty statement
StmtFallback_EofEmpty(f, i) ==
    IF TokAt(i) = Eof THEN PReturn(<<>>, i)
    ELSE PCall([f EXCEPT !.pc = "expr_stmt"], ExprCall(i), i)

\* The fallback arm of parse_stmt: an expression statement.
StmtFallback(f, i) == PCall([f EXCEPT !.pc = "expr_stmt"], ExprCall(i), i)

\* The match of parse_stmt on the first token.
StmtStart(f, i) ==
    LET k == Kind(TokAt(i))
    IN  CASE k = "LBrace" -> PCall([f EXCEPT !.pc = "block"], <<BlockFrame(i)>>, i)
          [] k = "Return" ->
                IF TokAt(i + 1) = T("Semi")
                THEN PReturn(<<StmtReturn(<<>>)>>, i + 2)
                ELSE PCall([f EXCEPT !.pc = "return"], ExprCall(i + 1), i + 1)
          [] k = "Const" -> StmtConstArm(f, i)
          [] k \in {"Int", "Unsigned"} -> StmtVarDeclArm(f, i)
          [] k = "If" -> StmtCondArm(f, i, "if_cond")
          [] k = "While" -> StmtCondArm(f, i, "while_cond")
          [] k = "Break" -> EndStmt([kind |-> "Break"], i + 1)
          [] k = "Continue" -> EndStmt([kind |-> "Continue"], i + 1)
          [] k = "Ident" -> StmtIdent(f, i)
          [] OTHER -> StmtFallback(f, i)

\* The controlling expression of an If or While is parsed: ensure_bool,
\* expect(RParen), parse_stmt_or_block.
StmtCond(f, e, i, pc) ==
    LET r == expect(ROk(i, <<>>), T("RParen"))
    IN  IF r.ok
        THEN PCall([f EXCEPT !.pc = pc, !.cond = ensure_bool(e)], StmtOrBlockCall(r.i), r.i)
        ELSE PFail(r)

\* parse_stmt going on after the call it made returned ret.
StmtResume(f, i) ==
    CASE f.pc = "block" -> PReturn(ret, i)
      [] f.pc = "return" -> EndStmt(StmtReturn(<<ret>>), i)
      [] f.pc = "const_init" -> EndStmt(StmtConstDecl(f.name, f.ty, ret), i)
      [] f.pc = "var_init" -> StmtVarInit(f, ret, i)
      [] f.pc = "if_cond" -> StmtCond(f, ret, i, "if_then")
      [] f.pc = "if_then" ->
            IF TokAt(i) = T("Else")
            THEN PCall([f EXCEPT !.pc = "if_else", !.then_body = ret],
                       StmtOrBlockCall(i + 1), i + 1)
            ELSE PReturn(<<StmtIf(f.cond, ret, <<>>)>>, i)
      [] f.pc = "if_else" -> PReturn(<<StmtIf(f.cond, f.then_body, ret)>>, i)
      [] f.pc = "while_cond" -> StmtCond(f, ret, i, "while_body")
      [] f.pc = "while_body" -> PReturn(<<StmtWhile(f.cond, ret)>>, i)
      [] f.pc = "assign_value" -> EndStmt(StmtAssign(f.name, ret), i)
      [] f.pc = "expr_stmt" -> EndStmt(StmtExpr(ret), i)

ParseStmt ==
    /\ Running("parse_stmt")
    /\ IF Top.pc = "start" THEN StmtStart(Top, p.i) ELSE StmtResume(Top, p.i)

\* The head of parse_block's while loop, outv collected so far.
BlockLoop(f, outv, i) ==
    IF TokAt(i) # T("RBrace")
    THEN PCall([f EXCEPT !.pc = "part", !.out = outv, !.mark = i], <<StmtFrame(i)>>, i)
    ELSE LET r == expect(ROk(i, <<>>), T("RBrace"))
         IN  IF r.ok THEN PReturn(outv, r.i) ELSE PFail(r)

\* the part taking the place of what was collected
BlockAppend_Overwrite(outv, part) == part

\* out.append(&mut part)
BlockAppend(outv, part) == outv \o part

ParseBlock ==
    /\ Running("parse_block")
    /\ IF Top.pc = "start"
       THEN LET r == expect(ROk(p.i, <<>>), T("LBrace"))
            IN  IF r.ok THEN BlockLoop(Top, <<>>, r.i) ELSE PFail(r)
       ELSE BlockLoop(Top, BlockAppend(Top.out, ret), p.i)

(***************************************************************************)
(* Parser: declarations and the translation unit                           *)
(***************************************************************************)
\* parse_function after its parameter list: expect(RParen), parse_block.
FunctionBody(f, i) ==
    LET r == expect(ROk(i, <<>>), T("RParen"))
    IN  IF r.ok THEN PCall([f EXCEPT !.pc = "body"], <<BlockFrame(r.i)>>, r.i)
        ELSE PFail(r)

\* One iteration of the parameter loop of parse_function.
FunctionParam(f, i) ==
    LET r1 == parse_type(ROk(i, <<>>))
        r2 == expect_ident(r1)
        ps == Append(f.parameters, [name |-> r2.val, ty |-> r1.val])
    IN  IF ~r2.ok THEN PFail(r2)
        ELSE IF TokAt(r2.i) = T("Comma")
        THEN PCall([f EXCEPT !.parameters = ps, !.mark = i], <<>>, r2.i + 1)
        ELSE FunctionBody([f EXCEPT !.parameters = ps], r2.i)

ParseFunction ==
    /\ Running("parse_function")
    /\ LET f == Top
       IN  CASE f.pc = "start" ->
                  LET r1 == parse_type(ROk(p.i, <<>>))
                      r2 == expect_ident(r1)
                      r3 == expect(r2, T("LParen"))
                      g == [f EXCEPT !.return_type = r1.val, !.name = r2.val]
                  IN  IF ~r3.ok THEN PFail(r3)
                      ELSE IF TokAt(r3.i) # T("RParen")
                      THEN PCall([g EXCEPT !.pc = "params"], <<>>, r3.i)
                      ELSE FunctionBody(g, r3.i)
             [] f.pc = "params" -> FunctionParam(f, p.i)
             [] f.pc = "body" ->
                  PReturn(<<[name |-> f.name, parameters |-> f.parameters,
                             return_type |-> f.return_type, body |-> ret]>>, p.i)

ParseGlobalConst ==
    /\ Running("parse_global_const")
    /\ LET f == Top
       IN  IF f.pc = "start"
           THEN LET r1 == expect(ROk(p.i, <<>>), T("Const"))
                    r2 == parse_type(r1)
                    r3 == expect_ident(r2)
                    r4 == expect(r3, T("Assign"))
                IN  IF r4.ok
                    THEN PCall([f EXCEPT !.pc = "init", !.ty = r2.val, !.name = r3.val],
                               ExprCall(r4.i), r4.i)
                    ELSE PFail(r4)
           ELSE LET r == expect(ROk(p.i, <<>>), T("Semi"))
                IN  IF r.ok
                    THEN PReturn(<<[name |-> f.name, ty |-> f.ty, init |-> ret]>>, r.i)
                    ELSE PFail(r)

\* The while loop of parse_translation_unit, after the push of what the
\* last iteration parsed, and the Ok(Program) that follows it.
ParseTranslationUnit ==
    /\ Running("parse_translation_unit")
    /\ LET f == Top
           globals == IF f.pc = "global" THEN f.globals \o ret ELSE f.globals
           functions == IF f.pc = "function" THEN f.functions \o ret
                        ELSE f.functions
           g == [f EXCEPT !.globals = globals, !.functions = functions, !.mark = p.i]
       IN  IF is_eof(p.i)
           THEN /\ phase' = "ok"
                /\ program' = [globals |-> globals, functions |-> functions]
                /\ stack' = <<>>
                /\ ret' = <<>>
                /\ UNCHANGED <<p, err>>
           ELSE IF TokAt(p.i) = T("Const")
           THEN PCall([g EXCEPT !.pc = "global"], <<GlobalConstFrame(p.i)>>, p.i)
           ELSE PCall([g EXCEPT !.pc = "function"], <<FunctionFrame(p.i)>>, p.i)

(***************************************************************************)
(* Source texts.  The families below are the texts the tokenizer and the   *)
(* parser are run on: short byte strings over the tokenizer's alphabet,    *)
(* whole programs and all their prefixes, and a function body holding      *)
(* statements, expressions or a few arbitrary tokens.                      *)
(***************************************************************************)
MaxLexLen == 4

MaxChainOps == 3

MaxBodyTokens == 3

SeqsUpTo(A, n) == UNION {[1..k -> A] : k \in 0..n}

RECURSIVE Cat(_)
Cat(ss) == IF ss = <<>> THEN <<>> ELSE Head(ss) \o Cat(Tail(ss))

LexPieces ==
    {<<" ">>, <<"\n">>, <<"/", "*">>, <<"*", "/">>, <<"/", "/">>, <<"=">>, <<"<">>,
     <<"!">>, <<">">>, <<"a">>, <<"1">>, <<"$">>}

LexTexts == {Cat(ss) : ss \in SeqsUpTo(LexPieces, MaxLexLen)}

Programs ==
    {<<"c", "o", "n", "s", "t", " ", "i", "n", "t", " ", "g", "=", "1", ";", "i", "n", "t", " ", "a", "d", "d", "(", "i", "n", "t", " ", "a", ",", "u", "n", "s", "i", "g", "n", "e", "d", " ", "b", ")", "{", "r", "e", "t", "u", "r", "n", " ", "a", "+", "b", "*", "g", ";", "}">>,
     <<"/", "*", " ", "c", " ", "*", "/", "v", "o", "i", "d", " ", "f", "(", ")", "{", "i", "f", "(", "x", "<", "1", ")", "{", "x", "=", "(", "x", "-", "1", ")", "*", "2", ";", "}", "e", "l", "s", "e", " ", "x", ";", "}", "/", "/", " ", "e">>,
     <<"i", "n", "t", " ", "f", "(", "i", "n", "t", " ", "a", ",", ")", "{", "}">>,
     <<"u", "n", "s", "i", "g", "n", "e", "d", " ", "v", "o", "i", "d", " ", "g", "(", "v", "o", "i", "d", ")", "{", "}">>,
     <<"c", "o", "n", "s", "t", " ", "u", "n", "s", "i", "g", "n", "e", "d", " ", "i", "n", "t", " ", "k", "=", "(", "1", "<", "2", ")", "=", "=", "3", ";">>,
     <<"i", "n", "t", " ", "f", "(", ")", "{", "w", "h", "i", "l", "e", "(", "t", "r", "u", "e", ")", "{", "b", "r", "e", "a", "k", ";", "c", "o", "n", "t", "i", "n", "u", "e", ";", "}", "i", "n", "t", " ", "y", ";", "y", "=", "1", ";", "}", "\n">>}

Prefixes(s) == {SubSeq(s, 1, k) : k \in 0..Len(s)}

ProgramTexts == UNION {Prefixes(s) : s \in Programs}

\* int f(){ body }
InBody(body) == <<"i", "n", "t", " ", "f", "(", ")", "{">> \o body \o <<"}">>

Stmts ==
    {<<"x", ";">>,
     <<"x", "=", "1", ";">>,
     <<"x", "=", "=", "1", ";">>,
     <<"1", "+", "x", ";">>,
     <<"i", "n", "t", " ", "x", ";">>,
     <<"i", "n", "t", " ", "x", "=", "1", ";">>,
     <<"u", "n", "s", "i", "g", "n", "e", "d", " ", "i", "n", "t", " ", "y", "=", "x", ";">>,
     <<"v", "o", "i", "d", " ", "x", ";">>,
     <<"u", "n", "s", "i", "g", "n", "e", "d", " ", "v", "o", "i", "d", " ", "z", ";">>,
     <<"c", "o", "n", "s", "t", " ", "i", "n", "t", " ", "c", "=", "2", ";">>,
     <<"r", "e", "t", "u", "r", "n", ";">>,
     <<"r", "e", "t", "u", "r", "n", " ", "x", ";">>,
     <<"b", "r", "e", "a", "k", ";">>,
     <<"c", "o", "n", "t", "i", "n", "u", "e", ";">>,
     <<"i", "f", "(", "x", ")", "x", "=", "1", ";">>,
     <<"i", "f", "(", "x", "<", "1", ")", "{", "x", ";", "}", "e", "l", "s", "e", "{", "1", ";", "}">>,
     <<"w", "h", "i", "l", "e", "(", "t", "r", "u", "e", ")", "b", "r", "e", "a", "k", ";">>,
     <<"w", "h", "i", "l", "e", "(", "x", ")", "{", "x", "=", "x", "-", "1", ";", "}">>,
     <<"{", "x", ";", "{", "y", ";", "}", "}">>,
     <<"{", "}">>,
     <<"i", "f", "(", "t", "r", "u", "e", ")", "{", "}", "e", "l", "s", "e", " ", "i", "f", "(", "x", ")", "y", ";">>}

StmtTexts == {InBody(a \o b) : a \in Stmts \cup {<<>>}, b \in Stmts}

OperandNames == <<"a", "b", "c", "d", "e", "g">>

ChainOps == {<<"+">>, <<"-">>, <<"*">>, <<"<">>}

\* a op[1] b op[2] c ...
RECURSIVE Chain(_, _)
Chain(ops, k) ==
    IF k > Len(ops) THEN <<OperandNames[k]>>
    ELSE <<OperandNames[k]>> \o ops[k] \o Chain(ops, k + 1)

Chains(n) == {Chain(ops, 1) : ops \in SeqsUpTo(ChainOps, n)}

Paren(e) == <<"(">> \o e \o <<")">>

ParenOps == {<<"+">>, <<"*">>, <<"<">>}

ParenExprs ==
    LET short == {Chain(ops, 1) : ops \in SeqsUpTo(ParenOps, 1)}
    IN  {Paren(c) : c \in short}
        \cup {Paren(Paren(c)) : c \in short}
        \cup {Paren(c) \o op \o d : c \in short, op \in ParenOps, d \in short}
        \cup {c \o op \o Paren(d) : c \in short, op \in ParenOps, d \in short}
        \cup {Paren(c) \o op \o Paren(d) : c \in short, op \in ParenOps, d \in short}

OtherExprs ==
    {<<"t", "r", "u", "e">>,
     <<"f", "a", "l", "s", "e">>,
     <<"(", "t", "r", "u", "e", ")">>,
     <<"t", "r", "u", "e", "=", "=", "a">>,
     <<"7">>,
     <<"a", "!", "=", "0">>,
     <<"a", ">", "=", "1", "0">>,
     <<"a", "<", "=", "b">>,
     <<"a", ">", "b">>,
     <<"a", "<">>,
     <<"(", "a">>,
     <<"a", ")">>,
     <<>>}

Exprs == Chains(MaxChainOps) \cup ParenExprs \cup OtherExprs

ExprTexts ==
    {InBody(e \o <<";">>) : e \in Exprs}
    \cup {InBody(<<"x", "=">> \o e \o <<";">>) : e \in Exprs}
    \cup {InBody(<<"r", "e", "t", "u", "r", "n", " ">> \o e \o <<";">>) : e \in Exprs}
    \cup {InBody(<<"i", "f", "(">> \o e \o <<")", "x", ";">>) : e \in Exprs}
    \cup {InBody(<<"w", "h", "i", "l", "e", "(">> \o e \o <<")", "{", "}">>) : e \in Exprs}

BodyPieces ==
    {<<"x">>,
     <<"1">>,
     <<"=">>,
     <<";">>,
     <<"{">>,
     <<"}">>,
     <<"(">>,
     <<")">>,
     <<"+">>,
     <<"<">>,
     <<"i", "f">>,
     <<"e", "l", "s", "e", " ">>,
     <<"i", "n", "t", " ">>,
     <<"r", "e", "t", "u", "r", "n", " ">>}

\* int f(){ and a few arbitrary tokens: the body may stay open
BodyTexts == {<<"i", "n", "t", " ", "f", "(", ")", "{">> \o Cat(ss) : ss \in SeqsUpTo(BodyPieces, MaxBodyTokens)}

Sources == LexTexts \cup ProgramTexts \cup StmtTexts \cup ExprTexts \cup BodyTexts

Init ==
    /\ src \in Sources
    /\ lx = NewLexer
    /\ lpc = "skip"
    /\ acc = 0
    /\ out = <<>>
    /\ phase = "lex"
    /\ err = NoErr
    /\ p = NewParser(<<>>)
    /\ stack = <<>>
    /\ ret = <<>>
    /\ program = <<>>

Next ==
    \/ LexSkip
    \/ LexLine
    \/ LexBlock
    \/ LexNum
    \/ LexIdent
    \/ ParseTranslationUnit
    \/ ParseGlobalConst
    \/ ParseFunction
    \/ ParseBlock
    \/ ParseStmt
    \/ ParseCmp
    \/ ParseAdd
    \/ ParseMul
    \/ ParsePrimary

Spec == Init /\ [][Next]_vars

FairSpec == Spec /\ WF_vars(Next)

(***************************************************************************)
(* Properties                                                              *)
(***************************************************************************)
Finished == phase \in {"ok", "err"}

\* lex_all returned Ok: the parser ran, whatever it answered.
LexSucceeded == phase \in {"parse", "ok"} \/ (phase = "err" /\ err.kind = "parse")

\* The running frame of fn returns Ok in this step.
Returns(fn) ==
    /\ phase = "parse"
    /\ stack # <<>>
    /\ Top.fn = fn
    /\ phase' = "parse"
    /\ stack' = Rest

\* parse_stmt is called and about to match on its first token.
AtStmtStart ==
    /\ phase = "parse"
    /\ stack # <<>>
    /\ Top.fn = "parse_stmt"
    /\ Top.pc = "start"

\* Every statement of a sequence, with those nested in it, in source order.
RECURSIVE AllStmts(_)
AllStmts(ss) ==
    IF ss = <<>> THEN <<>>
    ELSE LET st == Head(ss)
             inner == CASE st.kind = "If" -> AllStmts(st.then_body) \o AllStmts(st.else_body)
                        [] st.kind = "While" -> AllStmts(st.body)
                        [] OTHER -> <<>>
         IN  (<<st>> \o inner) \o AllStmts(Tail(ss))

RECURSIVE ProgramStmts(_)
ProgramStmts(fs) ==
    IF fs = <<>> THEN <<>> ELSE AllStmts(Head(fs).body) \o ProgramStmts(Tail(fs))

RECURSIVE CountCmp(_)
CountCmp(e) ==
    CASE e[1] = "Cmp" -> 1 + CountCmp(e[2]) + CountCmp(e[4])
      [] e[1] = "Binary" -> CountCmp(e[2]) + CountCmp(e[4])
      [] OTHER -> 0

RECURSIVE LeftmostLeaf(_)
LeftmostLeaf(e) == IF e[1] \in {"Cmp", "Binary"} THEN LeftmostLeaf(e[2]) ELSE e

Zero == <<"Lit", <<"Int", 32, TRUE, 0>>>>

\* C1: when lex_all succeeds, the token sequence it returns is not empty, its
\* last element is Eof and no element before the last is Eof.
C1_OneEofAtEnd ==
    LexSucceeded =>
        /\ Len(p.toks) > 0
        /\ p.toks[Len(p.toks)] = Eof
        /\ \A k \in 1..(Len(p.toks) - 1) : p.toks[k] # Eof

C1_Witness == LexSucceeded /\ Len(p.toks) >= 4

\* Every step of the tokenizer is one iteration of one of its loops: it
\* consumes at least one byte, or tokenizing stops.
LexConsumes == phase = "lex" => (lx'.i > lx.i \/ phase' # "lex")

\* A loop of the parser is back at its head (top-level declarations, block
\* statements, the parameter list, the + - and * chains): the iteration that
\* ended consumed at least one token.
ParserLoopsConsume ==
    (phase = "parse" /\ stack # <<>>) =>
        LET f == Top
            resumed ==
                \/ f.fn = "parse_translation_unit" /\ f.pc \in {"global", "function"}
                \/ f.fn = "parse_block" /\ f.pc = "part"
                \/ f.fn = "parse_function" /\ f.pc = "params"
                \/ f.fn \in {"parse_add", "parse_mul"} /\ f.pc = "rhs"
        IN  resumed => p.i > f.mark

\* What parse_translation_unit ends with: a Program or an error, not both.
FinishedResult ==
    /\ phase = "ok" => (err = NoErr /\ program # <<>>)
    /\ phase = "err" => (err # NoErr /\ program = <<>>)

\* C2: parse_translation_unit terminates on every source text with a Program
\* or an error; every iteration of a tokenizer loop consumes a byte or stops
\* and every iteration of a parser loop consumes a token or fails.
C2_Terminates ==
    /\ <>Finished
    /\ [][LexConsumes]_vars
    /\ [](ParserLoopsConsume /\ FinishedResult)

\* the end of the input met inside an unclosed construct, after some loop
\* iterations
C2_Witness ==
    /\ phase = "err"
    /\ err.kind = "parse"
    /\ err.msg[Len(err.msg)] = Eof
    /\ Len(p.toks) >= 8

TwoCharOps ==
    {<<"=", "=", T("EqEq")>>, <<"!", "=", T("NotEq")>>,
     <<"<", "=", T("Le")>>, <<">", "=", T("Ge")>>}

\* The tokenizer is about to read its next token (the skipping is done) and
\* the bytes c, d come next.
AtPair(c, d) ==
    /\ phase = "lex"
    /\ lpc = "skip"
    /\ lx.i + 2 <= Len(src)
    /\ src[lx.i + 1] = c
    /\ src[lx.i + 2] = d

\* C3: positioned at ==, !=, <= or >=, the tokenizer emits the one token
\* EqEq, NotEq, Le or Ge and consumes both bytes.
C3_MaximalMunch ==
    [][\A op \in TwoCharOps :
          AtPair(op[1], op[2]) => (out' = Append(out, op[3]) /\ lx'.i = lx.i + 2)]_vars

C3_Witness ==
    /\ out # <<>>
    /\ out[Len(out)] = T("Ge")
    /\ lx.i >= 3
    /\ phase = "lex"

NewlinesBefore(k) == Cardinality({j \in 1..k : src[j] = "\n"})

\* The place of the last newline among the first k bytes, 0 when none.
LastNewline(k) ==
    LET nl == {j \in 1..k : src[j] = "\n"}
    IN  IF nl = {} THEN 0 ELSE CHOOSE j \in nl : \A h \in nl : h <= j

UnexpectedChar ==
    /\ phase = "err"
    /\ err.kind = "lex"
    /\ err.msg[1] = "unexpected char"

\* C4: the position of an "unexpected char" error is that of the byte: line
\* is 1 + the newlines before it, col is 1 + the bytes after the last of
\* those newlines (or from the start) before it.
C4_ErrorPosition ==
    UnexpectedChar =>
        /\ err.msg[2] = src[lx.i + 1]
        /\ err.line = 1 + NewlinesBefore(lx.i)
        /\ err.col = 1 + (lx.i - LastNewline(lx.i))

\* an error on a later line, after a comment that holds a newline
C4_Witness ==
    /\ UnexpectedChar
    /\ err.line >= 2
    /\ err.col >= 2
    /\ src[1] = "/"

IsBoolish(e) == e[1] = "Cmp" \/ (e[1] = "Lit" /\ e[2][1] = "Bool")

\* parse_stmt has the controlling expression of an If or While in ret.
AtCond ==
    /\ phase = "parse"
    /\ stack # <<>>
    /\ Top.fn = "parse_stmt"
    /\ Top.pc \in {"if_cond", "while_cond"}

\* The cond that the step of AtCond keeps: the expression, or e != 0.
CondCoerced ==
    (AtCond /\ phase' = "parse") =>
        LET e == ret
            cond == stack'[Len(stack)].cond
        IN  IF IsBoolish(e) THEN cond = e ELSE cond = <<"Cmp", e, "Ne", Zero>>

\* The If or While that parse_stmt returns holds the cond it kept.
CondReturned ==
    (Returns("parse_stmt") /\ Top.pc \in {"if_then", "if_else", "while_body"}) =>
        /\ Len(ret') = 1
        /\ ret'[1].kind = (IF Top.pc = "while_body" THEN "While" ELSE "If")
        /\ ret'[1].cond = Top.cond

CondsBoolish ==
    phase = "ok" =>
        LET ss == ProgramStmts(program.functions)
        IN  \A k \in 1..Len(ss) :
                ss[k].kind \in {"If", "While"} => IsBoolish(ss[k].cond)

\* C5: the cond of every If and While of a Program is a Cmp or a Bool
\* literal; a controlling expression that parsed to one of these is kept and
\* any other e becomes Cmp{e, Ne, Lit Int{32, signed, 0}}.
C5_BoolCoercion == []CondsBoolish /\ [][CondCoerced /\ CondReturned]_vars

\* a Program with a kept Bool literal and the coerced x as conditions
C5_Witness ==
    /\ phase = "ok"
    /\ LET ss == ProgramStmts(program.functions)
       IN  /\ \E k \in 1..Len(ss) :
                 /\ ss[k].kind \in {"If", "While"}
                 /\ ss[k].cond[1] = "Lit"
           /\ \E k \in 1..Len(ss) :
                 /\ ss[k].kind \in {"If", "While"}
                 /\ ss[k].cond = <<"Cmp", <<"Var", <<"x">>>>, "Ne", Zero>>

\* The tokens at cursor i begin  'unsigned'? ('int' | 'void') Ident.
DeclTypeLen(i) == IF TokAt(i) = T("Unsigned") THEN 2 ELSE 1

AtDecl(i) ==
    /\ TokAt(i + DeclTypeLen(i) - 1) \in {T("Int"), T("Void")}
    /\ Kind(TokAt(i + DeclTypeLen(i))) = "Ident"

DeclType(i) ==
    IF TokAt(i + DeclTypeLen(i) - 1) = T("Void") THEN <<"Void">>
    ELSE <<"Int", 32, TokAt(i) # T("Unsigned")>>

DeclName(i) == TokAt(i + DeclTypeLen(i))[2]

\* The token after Type Ident.
DeclNext(i) == TokAt(i + DeclTypeLen(i) + 1)

\* The declarations parse_stmt meets whose first token is one of `first`:
\* Type Ident ';' returns the one VarDecl without initializer; Type Ident '='
\* goes on to parse the initializer after the '='; and with the initializer
\* parsed and a ';' next, the one VarDecl returned holds it.
DeclAccepted(first) ==
    /\ (AtStmtStart /\ TokAt(p.i) \in first /\ AtDecl(p.i) /\ DeclNext(p.i) = T("Semi")) =>
          /\ Returns("parse_stmt")
          /\ ret' = <<[kind |-> "VarDecl", name |-> DeclName(p.i),
                       ty |-> DeclType(p.i), init |-> <<>>]>>
          /\ p'.i = p.i + DeclTypeLen(p.i) + 2
    /\ (AtStmtStart /\ TokAt(p.i) \in first /\ AtDecl(p.i) /\ DeclNext(p.i) = T("Assign")) =>
          /\ phase' = "parse"
          /\ Len(stack') > Len(stack)
          /\ stack'[Len(stack)].pc = "var_init"
          /\ p'.i = p.i + DeclTypeLen(p.i) + 2
    /\ (/\ phase = "parse"
        /\ stack # <<>>
        /\ Top.fn = "parse_stmt"
        /\ Top.pc = "var_init"
        /\ TokAt(p.i) = T("Semi")) =>
          /\ Returns("parse_stmt")
          /\ TokAt(Top.at) \in first
          /\ AtDecl(Top.at)
          /\ ret' = <<[kind |-> "VarDecl", name |-> DeclName(Top.at),
                       ty |-> DeclType(Top.at), init |-> <<ret>>]>>
          /\ p'.i = p.i + 1

\* C6: inside a block every statement Type Ident ('=' Expr)? ';' with Type
\* 'unsigned'? ('int' | 'void') is accepted and yields exactly one VarDecl,
\* the initializer absent exactly when the '=' Expr part is.
C6_DeclAnyType == [][DeclAccepted({T("Int"), T("Unsigned"), T("Void")})]_vars

\* C6 as amended: the same of the statements whose first token is 'int' or
\* 'unsigned'; parse_stmt does not take a statement that begins with 'void'
\* for a declaration.
C6_DeclIntUnsigned == [][DeclAccepted({T("Int"), T("Unsigned")})]_vars

\* parse_stmt has just returned an unsigned declaration with an initializer
C6_Witness ==
    /\ phase = "parse"
    /\ stack # <<>>
    /\ Top.fn = "parse_block"
    /\ Top.pc = "part"
    /\ Len(ret) = 1
    /\ ret[1].kind = "VarDecl"
    /\ ret[1].ty = <<"Int", 32, FALSE>>
    /\ ret[1].init # <<>>

\* No '(' among the tokens after cursor a up to cursor b.
NoParen(a, b) == \A k \in (a + 1)..b : p.toks[k] # T("LParen")

\* C7: the tree of every expression the parser accepts holds at most one Cmp
\* node.
C7_OneCmp == [][Returns("parse_cmp") => CountCmp(ret') <= 1]_vars

\* C7 as amended: the tree of every accepted expression without parentheses
\* holds at most one Cmp node.
C7_OneCmpNoParen ==
    [][(Returns("parse_cmp") /\ NoParen(Top.at, p'.i)) => CountCmp(ret') <= 1]_vars

\* parse_expr has just returned a comparison, parsed without parentheses, as
\* an expression statement
C7_Witness ==
    /\ phase = "parse"
    /\ stack # <<>>
    /\ Top.fn = "parse_stmt"
    /\ Top.pc = "expr_stmt"
    /\ ret # <<>>
    /\ ret[1] = "Cmp"
    /\ NoParen(Top.at, p.i)

\* parse_stmt commits on the second token: after Ident '=' it goes on to the
\* value after the '=', otherwise to the expression that begins with the
\* identifier.
IdentCommits ==
    (AtStmtStart /\ Kind(TokAt(p.i)) = "Ident") =>
        /\ phase' = "parse"
        /\ Len(stack') > Len(stack)
        /\ IF TokAt(p.i + 1) = T("Assign")
           THEN p'.i = p.i + 2 /\ stack'[Len(stack)].pc = "assign_value"
           ELSE p'.i = p.i /\ stack'[Len(stack)].pc = "expr_stmt"

\* What parse_stmt returns for a statement that begins with an identifier.
IdentStmt ==
    (Returns("parse_stmt") /\ Kind(TokAt(Top.at)) = "Ident") =>
        LET name == TokAt(Top.at)[2]
            st == ret'[1]
        IN  /\ Len(ret') = 1
            /\ TokAt(p'.i - 1) = T("Semi")
            /\ (st.kind = "Assign") <=> (TokAt(Top.at + 1) = T("Assign"))
            /\ st.kind = "Assign" => (st.name = name /\ st.value = ret)
            /\ st.kind # "Assign" =>
                  (st.kind = "ExprStmt" /\ LeftmostLeaf(st.expr) = <<"Var", name>>)

\* C8: a statement that begins with an identifier yields Assign{name, value}
\* exactly when its second token is '='; otherwise it is parsed as an
\* expression statement whose expression starts from Var(name).
C8_IdentStatement == [][IdentCommits /\ IdentStmt]_vars

\* parse_stmt has just returned the expression statement of a comparison that
\* begins with an identifier followed by ==
C8_Witness ==
    /\ phase = "parse"
    /\ stack # <<>>
    /\ Top.fn = "parse_block"
    /\ Top.pc = "part"
    /\ Len(ret) = 1
    /\ ret[1].kind = "ExprStmt"
    /\ ret[1].expr[1] = "Cmp"
    /\ ret[1].expr[2][1] = "Var"

IsPrimaryTok(t) == Kind(t) \in {"IntLit", "Ident", "True", "False"}

\* The tokens after cursor a up to cursor b are primaries joined by + - *.
IsChain(a, b) ==
    /\ b > a
    /\ (b - a) % 2 = 1
    /\ \A k \in (a + 1)..b :
          IF (k - a) % 2 = 1 THEN IsPrimaryTok(p.toks[k])
          ELSE p.toks[k] \in {T("Plus"), T("Minus"), T("Star")}

PrimaryTree(t) ==
    CASE Kind(t) = "IntLit" -> <<"Lit", <<"Int", 32, TRUE, t[2]>>>>
      [] Kind(t) = "Ident" -> <<"Var", t[2]>>
      [] Kind(t) = "True" -> <<"Lit", <<"Bool", TRUE>>>>
      [] Kind(t) = "False" -> <<"Lit", <<"Bool", FALSE>>>>

\* The reference tree of the chain p.toks[lo..hi]: split at the last + or -,
\* and when there is none at the last *.
RECURSIVE RefTree(_, _)
RefTree(lo, hi) ==
    LET adds == {k \in lo..hi : p.toks[k] \in {T("Plus"), T("Minus")}}
        muls == {k \in lo..hi : p.toks[k] = T("Star")}
        last(S) == CHOOSE k \in S : \A h \in S : h <= k
    IN  IF lo = hi THEN PrimaryTree(p.toks[lo])
        ELSE IF adds # {}
        THEN <<"Binary", RefTree(lo, last(adds) - 1),
               IF p.toks[last(adds)] = T("Plus") THEN "Add" ELSE "Sub",
               RefTree(last(adds) + 1, hi)>>
        ELSE <<"Binary", RefTree(lo, last(muls) - 1), "Mul", RefTree(last(muls) + 1, hi)>>

\* C9: for primaries joined by + - and *, without parentheses, the parsed
\* tree is the reference tree: * binds tighter than + and -, and operators
\* of equal precedence group to the left.
C9_Precedence ==
    [][(Returns("parse_add") /\ IsChain(Top.at, p'.i)) =>
          ret' = RefTree(Top.at + 1, p'.i)]_vars

\* parse_add has just returned a + b * c ...: a sum whose right operand is a
\* product, from a chain of at least three primaries
C9_Witness ==
    /\ phase = "parse"
    /\ stack # <<>>
    /\ Top.fn = "parse_cmp"
    /\ Top.pc = "left"
    /\ ret # <<>>
    /\ ret[1] = "Binary"
    /\ ret[3] = "Sub"
    /\ ret[2][1] = "Binary"
    /\ ret[2][3] = "Add"
    /\ ret[4][1] = "Binary"
    /\ ret[4][3] = "Mul"

Count(S) == Cardinality({k \in 1..Len(p.toks) : p.toks[k] \in S})

\* The tokens, or the kinds, that are in S, in order.
RECURSIVE Only(_, _)
Only(ts, S) ==
    IF ts = <<>> THEN <<>>
    ELSE IF Head(ts) \in S THEN <<Head(ts)>> \o Only(Tail(ts), S)
    ELSE Only(Tail(ts), S)

RECURSIVE Kinds(_)
Kinds(ss) == IF ss = <<>> THEN <<>> ELSE <<Head(ss).kind>> \o Kinds(Tail(ss))

RECURSIVE TokKinds(_)
TokKinds(ts) == IF ts = <<>> THEN <<>> ELSE <<Kind(Head(ts))>> \o TokKinds(Tail(ts))

Keyworded == {"Return", "If", "While", "Break", "Continue"}

\* The statements of a Program are those written, one element each: every
\* statement but If and While ends with its own ';', as does every global;
\* and those that begin with a keyword come in the order of the keywords.
Flattened ==
    phase = "ok" =>
        LET ss == ProgramStmts(program.functions)
        IN  /\ Len(ss) + Len(program.globals)
                 = Count({T("Semi")}) + Count({T("If"), T("While")})
            /\ Only(Kinds(ss), Keyworded) = Only(TokKinds(p.toks), Keyworded)

\* parse_stmt returns one element for a statement that is not a block, and
\* for a block the statements of the block as they are.
OnePerStmt ==
    Returns("parse_stmt") =>
        IF TokAt(Top.at) = T("LBrace")
        THEN Top.pc = "block" /\ ret' = ret
        ELSE Len(ret') = 1

\* C10: a block used as a statement contributes its statements, in source
\* order, directly to the enclosing sequence, which so holds exactly the
\* statements written that are not blocks; a statement that is not a block
\* yields exactly one element.
C10_BlockFlattening == []Flattened /\ [][OnePerStmt]_vars

\* a body of several statements written with blocks nested in it
C10_Witness ==
    /\ phase = "ok"
    /\ Count({T("LBrace")}) >= 3
    /\ Len(program.functions) = 1
    /\ Len(program.functions[1].body) >= 3

====
